---- MODULE Spec2Model ----
(***************************************************************************)
(* State-machine model of the two interaction controllers of muggled_sam's *)
(* demo helpers:                                                           *)
(*   - run_crop_ui        (lib/demo_helpers/crop_ui.py)                    *)
(*   - PromptUIControl    (lib/demo_helpers/shared_ui_layout.py)           *)
(* Normalized coordinates are exact rationals n / NormDen; a coordinate is *)
(* stored as its numerator n.  Pixel conversion rounds half to even, as    *)
(* np.round does.  The overlays, buttons, sliders and the radio constraint *)
(* (lib/demo_helpers/ui/...) are modelled from their documented contracts. *)
(***************************************************************************)
EXTENDS Integers, Sequences, FiniteSets, TLC

VARIABLES
    \* ---- run_crop_ui ----
    full_w, full_h,      \* image_bgr.shape[1], image_bgr.shape[0]
    crop_olay,           \* CropBoxOverlay: [box, valid, changed]
    zoom_olay,           \* HoverOverlay:   [x, y, changed]
    zoom_slider,         \* HSlider:        [k, changed]   value = k / SliderSteps
    done_btn,            \* ImmediateButton: a press is pending
    pc,                  \* position of run_crop_ui
    rd,                  \* locals assigned by the three read() calls
    zoom_boundary_px,
    crop,                \* <<crop_x1, crop_y1, crop_x2, crop_y2>>
    zoom,                \* <<zoom_x1, zoom_y1, zoom_x2, zoom_y2>>, or <<>> before the first zoom update
    window_closed,       \* number of window.close() calls
    exit_by,             \* how the loop was left
    held_crop,           \* the crop held when the loop was left (before any handler ran)
    show_ret,            \* what the last window.show / done_btn.read() reported
    result,              \* the returned (x slice, y slice) as <<x1, x2, y1, y2>>
    crop_wh_txt,         \* the pair of numbers the "Crop WH" text block shows
    \* ---- PromptUI / PromptUIControl ----
    tools_constraint,    \* RadioConstraint over the tool buttons: [idx, changed, on]
    clear_btn,           \* ImmediateButton "Clear": a press is pending
    box_olay,            \* BoxSelectOverlay:   [items, changed]
    fgpt_olay,           \* PointSelectOverlay: [items, changed]
    bgpt_olay,           \* PointSelectOverlay: [items, changed]
    hover_olay,          \* HoverOverlay: [xy, in_region, clicked, changed]
    last_read,           \* what the read_prompts call that has just returned read and returned
    promoted,            \* the point the previous read_prompts call promoted from a hover click, and whether input has left it in place
    masks_constraint,    \* RadioConstraint over the mask preview buttons: [idx, changed, on]
    tools_enabled,       \* ToolButtonsGroup.enable: the tool buttons and Clear react to clicks
    \* ---- find_best_display_arrangement ----
    arr,                 \* the arguments of one call and, once it has returned, its result
    \* ---- ReusableBaseImage ----
    base_img             \* the object's fields (image sizes) and what the last regenerate call did

cropVars == <<full_w, full_h, crop_olay, zoom_olay, zoom_slider, done_btn, pc, rd,
              zoom_boundary_px, crop, zoom, window_closed, exit_by, held_crop,
              show_ret, result, crop_wh_txt>>

promptVars == <<tools_constraint, clear_btn, box_olay, fgpt_olay, bgpt_olay,
                hover_olay, last_read, promoted>>

layoutVars == <<masks_constraint, tools_enabled, arr, base_img>>

vars == <<cropVars, promptVars, layoutVars>>

-----------------------------------------------------------------------------
(* Bounds and input sets of the crop model *)

\* Denominator of the normalized coordinates n / NormDen
NormDen == 24

\* Image sizes (w, h) the model is run on
ImageSizes == {<<12, 8>>}
ZoomImageSizes == {<<12, 8>>, <<240, 210>>}

\* Numerators of the x and y coordinates the crop overlay can be moved to
CropXNums == {0, 3, 13, 24, 26}
CropYNums == {0, 24}

\* Numerators of the hover positions
HoverXNums == {0, 12, 24}
HoverYNums == {0, 24}

\* Slider positions k (value k / SliderSteps) that input events select
SliderSteps == 20
SliderInputs == {0, 10, 19, 20}

\* Program constants of run_crop_ui
MinCropPx == 5
InitZoomBoundaryPx == 100
ZoomBoundaryBase == 3
ZoomBoundarySpan == 200

-----------------------------------------------------------------------------
(* Pure helpers *)

Abs(x) == IF x < 0 THEN -x ELSE x

Min2(a, b) == IF a < b THEN a ELSE b

Max2(a, b) == IF a > b THEN a ELSE b

\* np.round(num / den) for den > 0: round half to even
RoundHalfEven(num, den) ==
    LET q == num \div den
        r == num % den
    IN  IF 2 * r < den THEN q
        ELSE IF 2 * r > den THEN q + 1
        ELSE IF q % 2 = 0 THEN q ELSE q + 1

\* np.int32(np.round(n_norm * size))
NormToPx(n, size) == RoundHalfEven(n * size, NormDen)

\* np.clip(v, lo, hi) = minimum(hi, maximum(v, lo))
Clip(v, lo, hi) == Min2(hi, Max2(v, lo))

FullBoxNorm == [x1 |-> 0, y1 |-> 0, x2 |-> NormDen, y2 |-> NormDen]

FullCrop(w, h) == <<0, 0, w, h>>

-----------------------------------------------------------------------------
(* CropBoxOverlay, HoverOverlay, HSlider, ImmediateButton: documented contracts *)

\* CropBoxOverlay(...).set_box([(0.25, 0.25), (0.75, 0.75)])
InitBoxNorm == [x1 |-> NormDen \div 4, y1 |-> NormDen \div 4,
                x2 |-> (3 * NormDen) \div 4, y2 |-> (3 * NormDen) \div 4]

\* The overlay may report is_valid only for a box that lies within [0,1]^2 and
\* spans at least MinCropPx image pixels on each axis
CropBoxMayBeValid(b, w, h) ==
    /\ \A n \in {b.x1, b.y1, b.x2, b.y2} : 0 <= n /\ n <= NormDen
    /\ Abs(b.x2 - b.x1) * w >= MinCropPx * NormDen
    /\ Abs(b.y2 - b.y1) * h >= MinCropPx * NormDen

CropBoxValidities(b, w, h) == {v \in BOOLEAN : v => CropBoxMayBeValid(b, w, h)}

\* read(): the changed flag is reported once and cleared
ReadOneShot(olay) == [olay EXCEPT !.changed = FALSE]

-----------------------------------------------------------------------------
(* run_crop_ui: pure parts *)

\* zoom_boundary_px = 3 + int((1.0 - zoom_factor_norm) * 200), zoom_factor_norm = k / SliderSteps
ZoomBoundaryOf(k) == ZoomBoundaryBase + ((SliderSteps - k) * ZoomBoundarySpan) \div SliderSteps

\* Mutant: an invalid box is used as it is
SubstituteInvalid_Never(is_valid, box) == box

\* if not is_valid_cropbox: crop_tlbr_norm = ((0.0, 0.0), (1.0, 1.0))
SubstituteInvalid(is_valid, box) == IF is_valid THEN box ELSE FullBoxNorm

\* xy_px = np.int32(np.round(xy_norm * max_wh_float)); np.clip(xy_px, 0, max_wh)
ClippedCrop(box, w, h) ==
    << Clip(NormToPx(box.x1, w), 0, w), Clip(NormToPx(box.y1, h), 0, h),
       Clip(NormToPx(box.x2, w), 0, w), Clip(NormToPx(box.y2, h), 0, h) >>

\* Mutant: the size test without abs()
CropTooSmall_NoAbs(c) == (c[3] - c[1] < MinCropPx) \/ (c[4] - c[2] < MinCropPx)

\* if (abs(crop_x2 - crop_x1) < 5) or (abs(crop_y2 - crop_y1) < 5)
CropTooSmall(c) == (Abs(c[3] - c[1]) < MinCropPx) \/ (Abs(c[4] - c[2]) < MinCropPx)

\* The crop coordinates assigned when the crop changes
NewCrop(box, w, h) ==
    LET c == ClippedCrop(box, w, h)
    IN  IF CropTooSmall(c) THEN FullCrop(w, h) ELSE c

\* Length of the slice a:b of an axis, for 0 <= a and 0 <= b
SliceLen(a, b) == Max2(0, b - a)

\* crop_image = image_bgr[crop_y1:crop_y2, crop_x1:crop_x2, :]; crop_image.shape[0:2]
CropImageShape(c) == <<SliceLen(c[2], c[4]), SliceLen(c[1], c[3])>>

\* Mutant: resizing an image without pixels goes through
ResizeRaises_Never(shape) == FALSE

\* cv2.resize(crop_image, ...) raises cv2.error for an image without pixels
ResizeRaises(shape) == shape[1] = 0 \/ shape[2] = 0

\* ValueBlock("Crop WH: ", "(1,1)")
InitCropWHText == <<1, 1>>

\* crop_w, crop_h = crop_image.shape[0:2]; crop_wh_txt.set_value(f"({crop_w}, {crop_h})")
CropWHText(shape) == <<shape[1], shape[2]>>

\* zoom_xy_cen, clipped to [min_zoom_xy, max_zoom_xy], then the window around it
ZoomWindow(hx, hy, boundary, w, h) ==
    LET cx == Clip(NormToPx(hx, w), boundary, w - boundary)
        cy == Clip(NormToPx(hy, h), boundary, h - boundary)
    IN  <<cx - boundary, cy - boundary, cx + boundary + 1, cy + boundary + 1>>

\* Mutant: the except clause leaves the crop as it is
CancelledCrop_Keep(c, w, h) == c

\* except KeyboardInterrupt: the crop is reset to the full image
CancelledCrop(c, w, h) == FullCrop(w, h)

\* Mutant: the x and y slices are returned in the other order
CropSlices_YX(c) == <<c[2], c[4], c[1], c[3]>>

\* slice(int(crop_x1), int(crop_x2)), slice(int(crop_y1), int(crop_y2))
CropSlices(c) == <<c[1], c[3], c[2], c[4]>>

-----------------------------------------------------------------------------
(* run_crop_ui: state machine *)

LoopPcs == {"read", "crop", "zoom", "show"}

NoRead == [is_zoom_changed |-> FALSE, zoom_x |-> 0, zoom_y |-> 0,
           is_zoom_slider_changed |-> FALSE, zoom_k |-> 0,
           is_crop_changed |-> FALSE, is_valid_cropbox |-> FALSE,
           crop_tlbr_norm |-> FullBoxNorm]

NoShow == [req_break |-> FALSE, keypress |-> "NONE", is_done |-> FALSE]

Keys == {"NONE", "ENTER", "OTHER"}

\* The values read from the overlays are not used after the zoom update: the
\* model keeps the three change flags and the validity flag of the frame only
FlagsOf(r) == [NoRead EXCEPT !.is_zoom_changed = r.is_zoom_changed,
                             !.is_zoom_slider_changed = r.is_zoom_slider_changed,
                             !.is_crop_changed = r.is_crop_changed,
                             !.is_valid_cropbox = r.is_valid_cropbox]

InitCropUI(sizes) ==
    /\ \E wh \in sizes : full_w = wh[1] /\ full_h = wh[2]
    /\ \E v \in BOOLEAN, ch \in BOOLEAN :
          /\ v => CropBoxMayBeValid(InitBoxNorm, full_w, full_h)
          /\ crop_olay = [box |-> InitBoxNorm, valid |-> v, changed |-> ch]
    /\ \E ch \in BOOLEAN : zoom_olay = [x |-> 0, y |-> 0, changed |-> ch]
    /\ \E ch \in BOOLEAN : zoom_slider = [k |-> SliderSteps \div 2, changed |-> ch]
    /\ done_btn = FALSE
    /\ pc = "read"
    /\ rd = NoRead
    /\ zoom_boundary_px = InitZoomBoundaryPx
    /\ crop = FullCrop(full_w, full_h)
    /\ zoom = <<>>
    /\ window_closed = 0
    /\ exit_by = "none"
    /\ held_crop = <<>>
    /\ show_ret = NoShow
    /\ result = <<>>
    /\ crop_wh_txt = InitCropWHText

\* zoom_olay.read(); zoom_slider.read(); crop_olay.read()
ReadOverlays ==
    /\ pc = "read"
    /\ rd' = [is_zoom_changed |-> zoom_olay.changed,
              zoom_x |-> zoom_olay.x, zoom_y |-> zoom_olay.y,
              is_zoom_slider_changed |-> zoom_slider.changed,
              zoom_k |-> zoom_slider.k,
              is_crop_changed |-> crop_olay.changed,
              is_valid_cropbox |-> crop_olay.valid,
              crop_tlbr_norm |-> crop_olay.box]
    /\ zoom_olay' = ReadOneShot(zoom_olay)
    /\ zoom_slider' = ReadOneShot(zoom_slider)
    /\ crop_olay' = ReadOneShot(crop_olay)
    /\ pc' = "crop"
    /\ UNCHANGED <<promptVars, layoutVars, full_w, full_h, crop_wh_txt, done_btn, zoom_boundary_px, crop, zoom,
                   window_closed, exit_by, held_crop, show_ret, result>>

\* Zoom boundary from the slider, invalid-box substitution, crop update with the
\* refresh of the crop preview and of the text blocks
UpdateCrop ==
    /\ pc = "crop"
    /\ zoom_boundary_px' = IF rd.is_zoom_slider_changed
                           THEN ZoomBoundaryOf(rd.zoom_k) ELSE zoom_boundary_px
    /\ rd' = [rd EXCEPT !.crop_tlbr_norm = SubstituteInvalid(rd.is_valid_cropbox, @)]
    /\ crop' = IF rd.is_crop_changed
               THEN NewCrop(rd'.crop_tlbr_norm, full_w, full_h) ELSE crop
    /\ LET shape == CropImageShape(crop')
           raises == rd.is_crop_changed /\ ResizeRaises(shape)
       IN  /\ crop_wh_txt' = IF rd.is_crop_changed /\ ~raises
                             THEN CropWHText(shape) ELSE crop_wh_txt
           /\ pc' = IF raises THEN "finally" ELSE "zoom"
           /\ exit_by' = IF raises THEN "error" ELSE exit_by
           /\ held_crop' = IF raises THEN crop' ELSE held_crop
    /\ UNCHANGED <<promptVars, layoutVars, full_w, full_h, crop_olay, zoom_olay, zoom_slider, done_btn, zoom,
                   window_closed, show_ret, result>>

\* Zoom display update, then crop_ui.render and the call of window.show
UpdateZoom ==
    /\ pc = "zoom"
    /\ zoom' = IF rd.is_zoom_changed \/ rd.is_zoom_slider_changed \/ rd.is_crop_changed
               THEN ZoomWindow(rd.zoom_x, rd.zoom_y, zoom_boundary_px, full_w, full_h)
               ELSE zoom
    /\ rd' = FlagsOf(rd)
    /\ show_ret' = NoShow
    /\ pc' = "show"
    /\ UNCHANGED <<promptVars, layoutVars, full_w, full_h, crop_wh_txt, crop_olay, zoom_olay, zoom_slider, done_btn,
                   zoom_boundary_px, crop, window_closed, exit_by, held_crop,
                   result>>

\* Input events are delivered to the UI while window.show pumps the event queue.
\* Crop box input (a corner is dragged or nudged to a new place): the overlay
\* holds a new box and flags the change
CropBoxEvent ==
    /\ pc = "show"
    /\ \E first \in BOOLEAN, x \in CropXNums, y \in CropYNums :
         LET b == IF first THEN [crop_olay.box EXCEPT !.x1 = x, !.y1 = y]
                           ELSE [crop_olay.box EXCEPT !.x2 = x, !.y2 = y]
         IN  \E v \in CropBoxValidities(b, full_w, full_h) :
                crop_olay' = [box |-> b, valid |-> v, changed |-> TRUE]
    /\ UNCHANGED <<promptVars, layoutVars, full_w, full_h, crop_wh_txt, zoom_olay, zoom_slider, done_btn, pc, rd,
                   zoom_boundary_px, crop, zoom, window_closed, exit_by, held_crop,
                   show_ret, result>>

\* Pointer move over the main display
HoverEvent ==
    /\ pc = "show"
    /\ \E x \in HoverXNums, y \in HoverYNums :
          zoom_olay' = [x |-> x, y |-> y, changed |-> TRUE]
    /\ UNCHANGED <<promptVars, layoutVars, full_w, full_h, crop_wh_txt, crop_olay, zoom_slider, done_btn, pc, rd,
                   zoom_boundary_px, crop, zoom, window_closed, exit_by, held_crop,
                   show_ret, result>>

\* Slider drag, or the "[" / "]" keys (zoom_slider.decrement / increment)
SliderEvent ==
    /\ pc = "show"
    /\ \E k \in SliderInputs : zoom_slider' = [k |-> k, changed |-> TRUE]
    /\ UNCHANGED <<promptVars, layoutVars, full_w, full_h, crop_wh_txt, crop_olay, zoom_olay, done_btn, pc, rd,
                   zoom_boundary_px, crop, zoom, window_closed, exit_by, held_crop,
                   show_ret, result>>

\* Click on the Done button
DoneClick ==
    /\ pc = "show"
    /\ ~done_btn
    /\ done_btn' = TRUE
    /\ UNCHANGED <<promptVars, layoutVars, full_w, full_h, crop_wh_txt, crop_olay, zoom_olay, zoom_slider, pc, rd,
                   zoom_boundary_px, crop, zoom, window_closed, exit_by, held_crop,
                   show_ret, result>>

\* Mutant: the ENTER key does not end the loop
LoopExit_NoEnter(req_break, keypress, is_done) ==
    IF req_break THEN "break"
    ELSE IF is_done THEN "done"
    ELSE "none"

\* Which of the three tests leaves the loop, in the order the code makes them
LoopExit(req_break, keypress, is_done) ==
    IF req_break THEN "break"
    ELSE IF keypress = "ENTER" THEN "enter"
    ELSE IF is_done THEN "done"
    ELSE "none"

\* window.show returns (req_break, keypress); break tests; done_btn.read()
ShowReturns ==
    /\ pc = "show"
    /\ \E req_break \in BOOLEAN, keypress \in Keys :
         LET reads_done == ~req_break /\ keypress # "ENTER"
             is_done == reads_done /\ done_btn
             how == LoopExit(req_break, keypress, is_done)
         IN  /\ show_ret' = [req_break |-> req_break, keypress |-> keypress,
                             is_done |-> is_done]
             /\ done_btn' = IF reads_done THEN FALSE ELSE done_btn
             /\ exit_by' = how
             /\ pc' = IF how = "none" THEN "read" ELSE "finally"
             /\ held_crop' = IF how = "none" THEN held_crop ELSE crop
    /\ UNCHANGED <<promptVars, layoutVars, full_w, full_h, crop_wh_txt, crop_olay, zoom_olay, zoom_slider, rd,
                   zoom_boundary_px, crop, zoom, window_closed, result>>

\* KeyboardInterrupt raised anywhere inside the loop; the except clause runs
Interrupt ==
    /\ pc \in LoopPcs
    /\ held_crop' = crop
    /\ crop' = CancelledCrop(crop, full_w, full_h)
    /\ exit_by' = "interrupt"
    /\ pc' = "finally"
    /\ UNCHANGED <<promptVars, layoutVars, full_w, full_h, crop_wh_txt, crop_olay, zoom_olay, zoom_slider, done_btn, rd,
                   zoom_boundary_px, zoom, window_closed, show_ret, result>>

\* Any other exception raised inside the loop: "except Exception as err: raise err"
OtherError ==
    /\ pc \in LoopPcs
    /\ held_crop' = crop
    /\ exit_by' = "error"
    /\ pc' = "finally"
    /\ UNCHANGED <<promptVars, layoutVars, full_w, full_h, crop_wh_txt, crop_olay, zoom_olay, zoom_slider, done_btn, rd,
                   zoom_boundary_px, crop, zoom, window_closed, show_ret, result>>

\* Where control goes after the finally clause
AfterFinally(how) == IF how = "error" THEN "raised" ELSE "return"

\* Mutant: the window is closed after the try statement, not in a finally clause
ClosesInFinally_NotOnError(how) == IF how = "error" THEN 0 ELSE 1

\* window.close() calls made by the finally clause
ClosesInFinally(how) == 1

\* finally: window.close()
Finally ==
    /\ pc = "finally"
    /\ window_closed' = window_closed + ClosesInFinally(exit_by)
    /\ pc' = AfterFinally(exit_by)
    /\ UNCHANGED <<promptVars, layoutVars, full_w, full_h, crop_wh_txt, crop_olay, zoom_olay, zoom_slider, done_btn, rd,
                   zoom_boundary_px, crop, zoom, exit_by, held_crop, show_ret, result>>

\* return x_crop_slice, y_crop_slice
Return ==
    /\ pc = "return"
    /\ result' = CropSlices(crop)
    /\ pc' = "done"
    /\ UNCHANGED <<promptVars, layoutVars, full_w, full_h, crop_wh_txt, crop_olay, zoom_olay, zoom_slider, done_btn, rd,
                   zoom_boundary_px, crop, zoom, window_closed, exit_by, held_crop,
                   show_ret>>

CropStep ==
    \/ ReadOverlays
    \/ UpdateCrop
    \/ UpdateZoom
    \/ ShowReturns
    \/ Interrupt
    \/ OtherError
    \/ Finally
    \/ Return

-----------------------------------------------------------------------------
(* Bounds and input sets of the prompt model *)

\* Most boxes / points per overlay that input events build up
MaxBoxes == 1
MaxPoints == 1

\* Normalized points and boxes that input events produce
Points == {"p", "q"}
Boxes == {"b"}

\* Order of the tool buttons in RadioConstraint(hover_btn, box_btn, fgpt_btn, bgpt_btn)
HoverIdx == 0
BoxIdx == 1
FgptIdx == 2
BgptIdx == 3
NumTools == 4

\* Mask preview buttons: blank_mask_btn_imgs = [...] * 4, initial_selected_index=1
NumMaskBtns == 4
MaskInitIdx == 1

-----------------------------------------------------------------------------
(* RadioConstraint, BoxSelectOverlay, PointSelectOverlay, HoverOverlay,       *)
(* ImmediateButton: documented contracts                                      *)

Range(seq) == {seq[i] : i \in 1..Len(seq)}

RemoveAt(seq, i) == [j \in 1..(Len(seq) - 1) |-> IF j < i THEN seq[j] ELSE seq[j + 1]]

\* RadioConstraint.change_to(item): selecting another item flags a change
ChangeTo(con, i) ==
    IF con.idx = i
    THEN con
    ELSE [idx |-> i, changed |-> TRUE,
          on |-> [[con.on EXCEPT ![con.idx] = FALSE] EXCEPT ![i] = TRUE]]

\* RadioConstraint(*items, initial_selected_index): the toggle state of each item,
\* the selected index, and the one-shot changed flag
NewConstraint(num_items, initial_selected_index) ==
    [idx |-> initial_selected_index, changed |-> FALSE,
     on |-> [i \in 0..(num_items - 1) |-> i = initial_selected_index]]

NumItems(con) == Cardinality(DOMAIN con.on)

\* RadioConstraint.next() / previous(): cyclic
NextItem(con) == ChangeTo(con, (con.idx + 1) % NumItems(con))

PreviousItem(con) == ChangeTo(con, (con.idx + NumItems(con) - 1) % NumItems(con))

\* overlay.clear(): no shapes left, flagged as a change
OlayClear(olay) == [items |-> <<>>, changed |-> TRUE]

\* overlay.add_points(*pts) / add_boxes(*boxes)
OlayAdd(olay, new) ==
    IF new = <<>> THEN olay ELSE [items |-> olay.items \o new, changed |-> TRUE]

\* Removal of the i-th shape by user input
OlayRemove(olay, i) == [items |-> RemoveAt(olay.items, i), changed |-> TRUE]

\* clear_prompts: self.olays.hover.clear(). What the hover overlay keeps of its
\* pointer state is decided outside this module, so every outcome is allowed.
HoverClearOutcomes(hov) ==
    [xy : Points, in_region : BOOLEAN, clicked : BOOLEAN, changed : BOOLEAN]

\* HoverOverlay.read() clears the changed flag and the click edge
HoverAfterRead(hov) == [hov EXCEPT !.changed = FALSE, !.clicked = FALSE]

-----------------------------------------------------------------------------
(* PromptUIControl.read_prompts: pure parts *)

\* Mutant: the clear button is read but the overlays are not cleared
ClearIfPressed_Never(clear_prompts, olay) == olay

\* if clear_prompts: olay.clear()   (box, fgpt and bgpt overlays)
ClearIfPressed(clear_prompts, olay) == IF clear_prompts THEN OlayClear(olay) ELSE olay

\* if selected_tool is self.elems.tools.hover
HoverIsRead(tool_idx) == tool_idx = HoverIdx

\* hover_xy_norm_list: the hover point while the pointer is in the region
HoverXYList(hover_is_read, hov) ==
    IF hover_is_read /\ hov.in_region THEN <<hov.xy>> ELSE <<>>

\* Mutant: a hover click leaves the Hover tool selected
ConstraintAfterClick_Stay(con, hover_is_clicked) == con

\* if hover_is_clicked: tools_constraint.change_to(tools.fgpt)
ConstraintAfterClick(con, hover_is_clicked) ==
    IF hover_is_clicked THEN ChangeTo(con, FgptIdx) ELSE con

\* Mutant: the hover point is added to the FG overlay whether or not it was clicked
FgptAfterClick_Always(olay, hover_is_clicked, xy) == OlayAdd(olay, <<xy>>)

\* Mutant: the clicked hover point is not added to the FG overlay
FgptAfterClick_Skip(olay, hover_is_clicked, xy) == olay

\* if hover_is_clicked: olays.fgpt.add_points(hover_xy_event.xy_norm)
FgptAfterClick(olay, hover_is_clicked, xy) ==
    IF hover_is_clicked THEN OlayAdd(olay, <<xy>>) ELSE olay

\* fg_xy_norm_list = tuple([*fg_xy_norm_list, *hover_xy_norm_list])
FoldHover(fg_list, hover_list) == fg_list \o hover_list

\* no_prompts = sum(len(pts) for pts in (fg, box, bg)) == 0
NoPrompts(fg_list, box_list, bg_list) == Len(fg_list) + Len(box_list) + Len(bg_list) = 0

\* Mutant: the tool is switched back to Hover whenever no prompt is left
ConstraintAfterRevert_AnyOverlay(con, fg_prompt_changed, no_prompts) ==
    IF no_prompts THEN ChangeTo(con, HoverIdx) ELSE con

\* Mutant: the tool is never switched back to Hover
ConstraintAfterRevert_Never(con, fg_prompt_changed, no_prompts) == con

\* if fg_prompt_changed and no_prompts: tools_constraint.change_to(tools.hover)
ConstraintAfterRevert(con, fg_prompt_changed, no_prompts) ==
    IF fg_prompt_changed /\ no_prompts THEN ChangeTo(con, HoverIdx) ELSE con

\* Mutant: a tool change alone does not ask for re-encoding
NeedReencode_NoTool(box_ch, fg_ch, bg_ch, hover_ch, is_tool_changed, clear_prompts) ==
    (box_ch \/ fg_ch \/ bg_ch \/ hover_ch) \/ clear_prompts

\* prompt_changed = any((box, fg, bg, hover)); need = prompt_changed or is_tool_changed or clear_prompts
NeedReencode(box_ch, fg_ch, bg_ch, hover_ch, is_tool_changed, clear_prompts) ==
    (box_ch \/ fg_ch \/ bg_ch \/ hover_ch) \/ is_tool_changed \/ clear_prompts

-----------------------------------------------------------------------------
(* PromptUI / PromptUIControl: state machine *)

\* read_prompts calls made one after the other without input in between are
\* counted up to this number (and one more)
QuietCalls == 4

\* No load_initial_prompts call has just been made
NoLoad == [called |-> FALSE, is_dict |-> FALSE, pending |-> FALSE,
           boxes |-> <<>>, fg_points |-> <<>>, bg_points |-> <<>>]

\* No enable_tools call has just been made
NoEnable == [called |-> FALSE, enable |-> FALSE, clear_prompt_data_on_disable |-> FALSE,
             had_prompts |-> FALSE]

NoRet == [called |-> FALSE, need |-> FALSE, boxes |-> <<>>, fg |-> <<>>, bg |-> <<>>,
          tool_idx |-> HoverIdx, is_tool_changed |-> FALSE, clear_prompts |-> FALSE,
          box_changed |-> FALSE, fg_changed |-> FALSE, bg_changed |-> FALSE,
          hover_read |-> FALSE, hover_changed |-> FALSE, hover_clicked |-> FALSE,
          hover_in |-> FALSE, hover_xy |-> "p", held_before |-> 0,
          prev_promoted |-> [pt |-> "none", intact |-> TRUE],
          fg_read |-> <<>>, loaded |-> NoLoad, prev_loaded |-> NoLoad,
          enabling |-> NoEnable, run |-> 0, run_need |-> 0]

\* No point is being tracked from a hover click
NoPromoted == [pt |-> "none", intact |-> TRUE]

InitPromptUI ==
    /\ tools_constraint = NewConstraint(NumTools, HoverIdx)
    /\ clear_btn = FALSE
    /\ box_olay = [items |-> <<>>, changed |-> FALSE]
    /\ fgpt_olay = [items |-> <<>>, changed |-> FALSE]
    /\ bgpt_olay = [items |-> <<>>, changed |-> FALSE]
    /\ hover_olay = [xy |-> "p", in_region |-> FALSE, clicked |-> FALSE, changed |-> FALSE]
    /\ last_read = NoRet
    /\ promoted = NoPromoted

\* read_prompts()
ReadPrompts ==
    LET is_tool_changed == tools_constraint.changed
        tool_idx == tools_constraint.idx
        con0 == [tools_constraint EXCEPT !.changed = FALSE]
        clear_prompts == clear_btn
        box0 == ClearIfPressed(clear_prompts, box_olay)
        fg0 == ClearIfPressed(clear_prompts, fgpt_olay)
        bg0 == ClearIfPressed(clear_prompts, bgpt_olay)
        hover_is_read == HoverIsRead(tool_idx)
        hover_changed == hover_is_read /\ hover_olay.changed
        hover_clicked == hover_is_read /\ hover_olay.clicked
        hover_list == HoverXYList(hover_is_read, hover_olay)
        con1 == ConstraintAfterClick(con0, hover_clicked)
        fg1 == FgptAfterClick(ReadOneShot(fg0), hover_clicked, hover_olay.xy)
        fg_list == FoldHover(fg0.items, hover_list)
        no_prompts == NoPrompts(fg_list, box0.items, bg0.items)
        con2 == ConstraintAfterRevert(con1, fg0.changed, no_prompts)
    IN  /\ clear_btn' = FALSE
        /\ box_olay' = ReadOneShot(box0)
        /\ bgpt_olay' = ReadOneShot(bg0)
        /\ fgpt_olay' = fg1
        /\ hover_olay' = IF hover_is_read THEN HoverAfterRead(hover_olay) ELSE hover_olay
        /\ tools_constraint' = con2
        /\ promoted' = IF hover_clicked THEN [pt |-> hover_olay.xy, intact |-> TRUE]
                                        ELSE NoPromoted
        /\ last_read' =
             [called |-> TRUE,
              need |-> NeedReencode(box0.changed, fg0.changed, bg0.changed,
                                    hover_changed, is_tool_changed, clear_prompts),
              boxes |-> box0.items, fg |-> fg_list, bg |-> bg0.items,
              tool_idx |-> tool_idx, is_tool_changed |-> is_tool_changed,
              clear_prompts |-> clear_prompts,
              box_changed |-> box0.changed, fg_changed |-> fg0.changed,
              bg_changed |-> bg0.changed,
              hover_read |-> hover_is_read, hover_changed |-> hover_changed,
              hover_clicked |-> hover_clicked,
              hover_in |-> hover_is_read /\ hover_olay.in_region,
              hover_xy |-> IF hover_is_read THEN hover_olay.xy ELSE "p",
              held_before |-> Len(box_olay.items) + Len(fgpt_olay.items)
                              + Len(bgpt_olay.items),
              prev_promoted |-> promoted,
              fg_read |-> fg0.items,
              loaded |-> NoLoad, prev_loaded |-> last_read.loaded,
              enabling |-> NoEnable,
              run |-> Min2(last_read.run + 1, QuietCalls + 1),
              run_need |-> IF NeedReencode(box0.changed, fg0.changed, bg0.changed,
                                           hover_changed, is_tool_changed, clear_prompts)
                           THEN Min2(last_read.run_need + 1, QuietCalls + 1)
                           ELSE last_read.run_need]
        /\ UNCHANGED <<cropVars, layoutVars>>

\* The point promoted by the last read_prompts call is tracked until the next call;
\* it stays intact as long as no input removes it from the FG overlay or presses Clear
PromotedAfter(fg_items, clear_pending) ==
    IF promoted.pt = "none"
    THEN promoted
    ELSE [promoted EXCEPT !.intact = /\ promoted.intact
                                     /\ promoted.pt \in Range(fg_items)
                                     /\ ~clear_pending]

\* Click on a tool button
ToolClick ==
    /\ tools_enabled
    /\ \E i \in 0..(NumTools - 1) : tools_constraint' = ChangeTo(tools_constraint, i)
    /\ last_read' = NoRet
    /\ UNCHANGED <<cropVars, layoutVars, clear_btn, box_olay, fgpt_olay, bgpt_olay, hover_olay, promoted>>

\* RIGHT_ARROW: tool_const.next
ToolNext ==
    /\ tools_constraint' = NextItem(tools_constraint)
    /\ last_read' = NoRet
    /\ UNCHANGED <<cropVars, layoutVars, clear_btn, box_olay, fgpt_olay, bgpt_olay, hover_olay, promoted>>

\* Mutant: LEFT_ARROW bound to tool_const.next
ToolPrevious_BoundToNext ==
    /\ tools_constraint' = NextItem(tools_constraint)
    /\ last_read' = NoRet
    /\ UNCHANGED <<cropVars, layoutVars, clear_btn, box_olay, fgpt_olay, bgpt_olay, hover_olay,
                   promoted>>

\* LEFT_ARROW: tool_const.previous
ToolPrevious ==
    /\ tools_constraint' = PreviousItem(tools_constraint)
    /\ last_read' = NoRet
    /\ UNCHANGED <<cropVars, layoutVars, clear_btn, box_olay, fgpt_olay, bgpt_olay, hover_olay, promoted>>

\* Click on the Clear button
ClearClick ==
    /\ tools_enabled
    /\ ~clear_btn
    /\ clear_btn' = TRUE
    /\ last_read' = NoRet
    /\ promoted' = PromotedAfter(fgpt_olay.items, TRUE)
    /\ UNCHANGED <<cropVars, layoutVars, tools_constraint, box_olay, fgpt_olay, bgpt_olay, hover_olay>>

\* Pointer input reaches only the overlay of the selected tool.
\* Box tool: a box is completed, or an existing box is removed
BoxInput ==
    /\ tools_constraint.idx = BoxIdx
    /\ \/ /\ Len(box_olay.items) < MaxBoxes
          /\ \E b \in Boxes : box_olay' = OlayAdd(box_olay, <<b>>)
       \/ \E i \in 1..Len(box_olay.items) : box_olay' = OlayRemove(box_olay, i)
    /\ last_read' = NoRet
    /\ UNCHANGED <<cropVars, layoutVars, tools_constraint, clear_btn, fgpt_olay, bgpt_olay, hover_olay,
                   promoted>>

\* FG-point tool: a point is added or removed
FgptInput ==
    /\ tools_constraint.idx = FgptIdx
    /\ \/ /\ Len(fgpt_olay.items) < MaxPoints
          /\ \E pt \in Points : fgpt_olay' = OlayAdd(fgpt_olay, <<pt>>)
       \/ \E i \in 1..Len(fgpt_olay.items) : fgpt_olay' = OlayRemove(fgpt_olay, i)
    /\ last_read' = NoRet
    /\ promoted' = PromotedAfter(fgpt_olay'.items, clear_btn)
    /\ UNCHANGED <<cropVars, layoutVars, tools_constraint, clear_btn, box_olay, bgpt_olay, hover_olay>>

\* BG-point tool: a point is added or removed
BgptInput ==
    /\ tools_constraint.idx = BgptIdx
    /\ \/ /\ Len(bgpt_olay.items) < MaxPoints
          /\ \E pt \in Points : bgpt_olay' = OlayAdd(bgpt_olay, <<pt>>)
       \/ \E i \in 1..Len(bgpt_olay.items) : bgpt_olay' = OlayRemove(bgpt_olay, i)
    /\ last_read' = NoRet
    /\ UNCHANGED <<cropVars, layoutVars, tools_constraint, clear_btn, box_olay, fgpt_olay, hover_olay,
                   promoted>>

\* Hover tool: the pointer moves (inside or outside the image region)
HoverMove ==
    /\ tools_constraint.idx = HoverIdx
    /\ \E pt \in Points, inside \in BOOLEAN :
          hover_olay' = [hover_olay EXCEPT !.xy = pt, !.in_region = inside, !.changed = TRUE]
    /\ last_read' = NoRet
    /\ UNCHANGED <<cropVars, layoutVars, tools_constraint, clear_btn, box_olay, fgpt_olay, bgpt_olay,
                   promoted>>

\* Hover tool: button pressed while the pointer is in the region (click edge)
HoverClick ==
    /\ tools_constraint.idx = HoverIdx
    /\ hover_olay.in_region
    /\ Len(fgpt_olay.items) <= MaxPoints
    /\ hover_olay' = [hover_olay EXCEPT !.clicked = TRUE, !.changed = TRUE]
    /\ last_read' = NoRet
    /\ UNCHANGED <<cropVars, layoutVars, tools_constraint, clear_btn, box_olay, fgpt_olay, bgpt_olay,
                   promoted>>

\* Sequences over S of length at most n
SeqsUpTo(S, n) == UNION {[1..k -> S] : k \in 0..n}

\* Arguments of load_initial_prompts: something that is not a dict (e.g. None), or
\* a dict; a key that is absent reads as the empty list (.get(key, []))
NotADict == [is_dict |-> FALSE, boxes |-> <<>>, fg_points |-> <<>>, bg_points |-> <<>>]
LoadArgs ==
    {NotADict} \cup [is_dict : {TRUE}, boxes : SeqsUpTo(Boxes, MaxBoxes),
                     fg_points : SeqsUpTo(Points, MaxPoints),
                     bg_points : SeqsUpTo(Points, MaxPoints)]

\* Mutant: load_initial_prompts leaves a pending Clear press in place
ClearBtnAfterLoad_Keep(btn, d) == btn

\* if not isinstance(d, dict): return;  self.elems.tools.clear.read()
ClearBtnAfterLoad(btn, d) == IF d.is_dict THEN FALSE ELSE btn

\* if not isinstance(d, dict): return;  olay.add_boxes(*d.get(key, [])) / add_points
OlayAfterLoad(olay, d, new) == IF d.is_dict THEN OlayAdd(olay, new) ELSE olay

\* PromptUIControl.load_initial_prompts(initial_prompts_dict)
LoadInitialPrompts ==
    \E d \in LoadArgs :
        /\ Len(box_olay.items) + Len(d.boxes) <= MaxBoxes + 1
        /\ Len(fgpt_olay.items) + Len(d.fg_points) <= MaxPoints + 1
        /\ Len(bgpt_olay.items) + Len(d.bg_points) <= MaxPoints + 1
        /\ clear_btn' = ClearBtnAfterLoad(clear_btn, d)
        /\ box_olay' = OlayAfterLoad(box_olay, d, d.boxes)
        /\ fgpt_olay' = OlayAfterLoad(fgpt_olay, d, d.fg_points)
        /\ bgpt_olay' = OlayAfterLoad(bgpt_olay, d, d.bg_points)
        /\ last_read' = [NoRet EXCEPT !.loaded =
                            [called |-> TRUE, is_dict |-> d.is_dict, pending |-> clear_btn,
                             boxes |-> d.boxes, fg_points |-> d.fg_points,
                             bg_points |-> d.bg_points]]
        /\ UNCHANGED <<cropVars, layoutVars, tools_constraint, hover_olay, promoted>>

\* enable_tools: if enable: _, tool_select_idx, _ = self.tools_constraint.read()
ConstraintAfterEnableTools(con, enable) == IF enable THEN ReadOneShot(con) ELSE con

\* Mutant: disabling the tools always wipes the prompt data
ClearsOnDisable_Always(enable, clear_prompt_data_on_disable) == ~enable

\* enable_tools: if not enable and clear_prompt_data_on_disable: self.clear_prompts()
ClearsOnDisable(enable, clear_prompt_data_on_disable) ==
    ~enable /\ clear_prompt_data_on_disable

\* PromptUI.enable_tools(enable, clear_prompt_data_on_disable)
EnableTools ==
    \E enable \in BOOLEAN, clear_prompt_data_on_disable \in BOOLEAN :
        LET wipe == ClearsOnDisable(enable, clear_prompt_data_on_disable)
        IN  /\ tools_enabled' = enable
            /\ tools_constraint' = ConstraintAfterEnableTools(tools_constraint, enable)
            /\ hover_olay' \in IF wipe THEN HoverClearOutcomes(hover_olay) ELSE {hover_olay}
            /\ box_olay' = IF wipe THEN OlayClear(box_olay) ELSE box_olay
            /\ fgpt_olay' = IF wipe THEN OlayClear(fgpt_olay) ELSE fgpt_olay
            /\ bgpt_olay' = IF wipe THEN OlayClear(bgpt_olay) ELSE bgpt_olay
            /\ promoted' = PromotedAfter(fgpt_olay'.items, clear_btn)
            /\ last_read' = [NoRet EXCEPT !.enabling =
                                [called |-> TRUE, enable |-> enable,
                                 clear_prompt_data_on_disable |-> clear_prompt_data_on_disable,
                                 had_prompts |-> Len(box_olay.items) + Len(fgpt_olay.items)
                                                 + Len(bgpt_olay.items) > 0]]
            /\ UNCHANGED <<cropVars, masks_constraint, arr, base_img, clear_btn>>

-----------------------------------------------------------------------------
(* find_best_display_arrangement *)

\* Sizes are positive integers; the code's float arithmetic is modelled by exact
\* rationals <<numerator, denominator>> with a positive denominator. The two agree
\* whenever the quotients are exactly representable (e.g. power-of-two mask sizes).
MaxImageSide == 12
MaxMaskSide == 2
MaxNumMasks == 4

\* target_ar, as a rational (the default is 2.0)
TargetRatios == {<<1, 1>>, <<3, 2>>, <<2, 1>>}

Rat(n, d) == <<n, d>>

RatAdd(a, b) == <<a[1] * b[2] + b[1] * a[2], a[2] * b[2]>>

RatDiv(a, b) == <<a[1] * b[2], a[2] * b[1]>>

RatAbsDiff(a, b) == <<Abs(a[1] * b[2] - b[1] * a[2]), a[2] * b[2]>>

RatLess(a, b) == a[1] * b[2] < b[1] * a[2]

RatEq(a, b) == a[1] * b[2] = b[1] * a[2]

\* x // n on a non-negative float x: the floor of the quotient, as a float
RatFloorDiv(a, n) == <<a[1] \div (a[2] * n), 1>>

\* tallmask_w = mask_w * (img_h / mask_h)
TallmaskW(in) == <<in.mask_w * in.img_h, in.mask_h>>

\* widemask_h = mask_h * (img_w / mask_w)
WidemaskH(in) == <<in.mask_h * in.img_w, in.mask_w>>

\* configurations_list: (side_str, order_str, add_h, add_w), in the order of the list
ConfigurationsList(in) ==
    LET n == in.num_masks
        zero == Rat(0, 1)
        tw == TallmaskW(in)
        wh == WidemaskH(in)
    IN  << [side |-> "right", order |-> "vertical", add_h |-> zero,
            add_w |-> RatFloorDiv(tw, n)],
           [side |-> "right", order |-> "horizontal", add_h |-> zero,
            add_w |-> RatAdd(Rat(in.img_w, 1), <<tw[1] * n, tw[2]>>)],
           [side |-> "right", order |-> "grid", add_h |-> zero, add_w |-> tw],
           [side |-> "top", order |-> "vertical",
            add_h |-> <<wh[1] * n, wh[2]>>, add_w |-> zero],
           [side |-> "top", order |-> "horizontal",
            add_h |-> RatFloorDiv(wh, n), add_w |-> zero],
           [side |-> "top", order |-> "grid", add_h |-> wh, add_w |-> zero] >>

\* ar_delta = abs(target_ar - (img_w + add_w) / (img_h + add_h))
ArDelta(in, cfg) ==
    RatAbsDiff(in.target_ar,
               RatDiv(RatAdd(Rat(in.img_w, 1), cfg.add_w),
                      RatAdd(Rat(in.img_h, 1), cfg.add_h)))

\* ardelta_side_order_list: (ar_delta, side_str, order_str)
ArdeltaSideOrderList(in) ==
    LET cfgs == ConfigurationsList(in)
    IN  [i \in 1..Len(cfgs) |->
            [ar_delta |-> ArDelta(in, cfgs[i]), side |-> cfgs[i].side,
             order |-> cfgs[i].order]]

\* _build_display_block: rows and columns of mask tiles in the mask stack,
\* order_lut = {"grid": VStack(HStack(*mask_btns[:2]), HStack(*mask_btns[2:])),
\*              "vertical": VStack(*mask_btns), "horizontal": HStack(*mask_btns)}
\* (the grid has two tiles in its first row)
MaskStackRowsCols(order_str, n) ==
    IF order_str = "grid" THEN <<2, 2>>
    ELSE IF order_str = "vertical" THEN <<n, 1>>
    ELSE <<1, n>>

\* _build_display_block: HStack(image, mask stack) for side "right", VStack(mask
\* stack, image) otherwise. Width and height of the block when the tiles keep the
\* mask's aspect ratio and the mask stack spans the image's height ("right") or
\* width ("top")
DisplayBlockWH(in, side_str, order_str) ==
    LET rc == MaskStackRowsCols(order_str, in.num_masks)
        stack_w_over_h == Rat(rc[2] * in.mask_w, rc[1] * in.mask_h)
    IN  IF side_str = "right"
        THEN <<RatAdd(Rat(in.img_w, 1),
                      <<in.img_h * stack_w_over_h[1], stack_w_over_h[2]>>),
               Rat(in.img_h, 1)>>
        ELSE <<Rat(in.img_w, 1),
               RatAdd(Rat(in.img_h, 1),
                      <<in.img_w * stack_w_over_h[2], stack_w_over_h[1]>>)>>

\* Python's order on the strings used: "right" < "top"
SideRank(side_str) == IF side_str = "right" THEN 0 ELSE 1

\* Python's order on the strings used: "grid" < "horizontal" < "vertical"
OrderRank(order_str) ==
    IF order_str = "grid" THEN 0 ELSE IF order_str = "horizontal" THEN 1 ELSE 2

\* Mutant: tuples compared by their strings alone
TupleLess_NoDelta(a, b) ==
    \/ SideRank(a.side) < SideRank(b.side)
    \/ SideRank(a.side) = SideRank(b.side) /\ OrderRank(a.order) < OrderRank(b.order)

\* a < b on (ar_delta, side_str, order_str) tuples: lexicographic, as min() compares
TupleLess(a, b) ==
    \/ RatLess(a.ar_delta, b.ar_delta)
    \/ /\ RatEq(a.ar_delta, b.ar_delta)
       /\ \/ SideRank(a.side) < SideRank(b.side)
          \/ /\ SideRank(a.side) = SideRank(b.side)
             /\ OrderRank(a.order) < OrderRank(b.order)

\* min(list): the first item that no other item is less than
MinTuple(list) ==
    LET best == CHOOSE i \in 1..Len(list) :
                    /\ \A j \in 1..Len(list) : ~TupleLess(list[j], list[i])
                    /\ \A j \in 1..(i - 1) : TupleLess(list[i], list[j])
    IN  list[best]

\* find_best_display_arrangement(image_shape, mask_shape, target_ar, num_masks)
FindBestDisplayArrangement(in) ==
    LET best == MinTuple(ArdeltaSideOrderList(in))
    IN  <<best.side, best.order>>

ArrInputs ==
    [img_h : 1..MaxImageSide, img_w : 1..MaxImageSide,
     mask_h : 1..MaxMaskSide, mask_w : 1..MaxMaskSide,
     target_ar : TargetRatios, num_masks : 1..MaxNumMasks]

NoArr == [called |-> FALSE,
          in |-> [img_h |-> 1, img_w |-> 1, mask_h |-> 1, mask_w |-> 1,
                  target_ar |-> <<2, 1>>, num_masks |-> 4],
          out |-> <<"none", "none">>]

\* A call is about to be made with some arguments
InitArrangement ==
    \E in \in ArrInputs : arr = [called |-> FALSE, in |-> in, out |-> <<"none", "none">>]

\* The call returns
FindBest ==
    /\ ~arr.called
    /\ arr' = [arr EXCEPT !.called = TRUE, !.out = FindBestDisplayArrangement(arr.in)]
    /\ UNCHANGED <<cropVars, promptVars, masks_constraint, tools_enabled, base_img>>

\* Click on a mask preview button
MaskClick ==
    /\ \E i \in 0..(NumMaskBtns - 1) : masks_constraint' = ChangeTo(masks_constraint, i)
    /\ UNCHANGED <<cropVars, promptVars, tools_enabled, arr, base_img>>

\* DOWN_ARROW: mask_const.next
MaskNext ==
    /\ masks_constraint' = NextItem(masks_constraint)
    /\ UNCHANGED <<cropVars, promptVars, tools_enabled, arr, base_img>>

\* UP_ARROW: mask_const.previous
MaskPrevious ==
    /\ masks_constraint' = PreviousItem(masks_constraint)
    /\ UNCHANGED <<cropVars, promptVars, tools_enabled, arr, base_img>>

-----------------------------------------------------------------------------
(* ReusableBaseImage *)

\* Image heights and widths range over 1..MaxDisplaySide; an image is modelled by
\* its <<height, width>>
MaxDisplaySide == 3

DisplaySizes == (1..MaxDisplaySide) \X (1..MaxDisplaySide)

\* cv2.resize(src, dsize=(w, h)): an image of height h and width w
ResizedShape(disp_h, disp_w) == <<disp_h, disp_w>>

\* if disp_h != self._prev_h or disp_w != self._prev_w
NeedsResize(disp_h, disp_w, prev_h, prev_w) == disp_h # prev_h \/ disp_w # prev_w

\* self._prev_h, self._prev_w after regenerate: the call assigns only the locals
\* prev_disp_h, prev_disp_w, so the fields keep the values __init__ gave them
PrevAfterRegenerate(prev_hw, disp_hw) == prev_hw

NoBaseImage == [full_hw |-> <<1, 1>>, disp_hw |-> <<1, 1>>, prev_hw |-> <<1, 1>>,
                calls |-> 0, req |-> <<1, 1>>, ret_hw |-> <<1, 1>>, resized |-> FALSE]

\* No ReusableBaseImage is being looked at
BaseImageIdle == base_img = NoBaseImage

\* ReusableBaseImage.__init__(full_image_bgr)
InitReusableBaseImage ==
    \E hw \in DisplaySizes :
        base_img = [full_hw |-> hw, disp_hw |-> hw, prev_hw |-> hw,
                    calls |-> 0, req |-> hw, ret_hw |-> hw, resized |-> FALSE]

\* ReusableBaseImage.regenerate(new_display_hw); calls counts up to 2 (first call,
\* later calls), req is the size this call was asked for
Regenerate ==
    \E new_display_hw \in DisplaySizes :
        LET disp_h == new_display_hw[1]
            disp_w == new_display_hw[2]
            resize == NeedsResize(disp_h, disp_w, base_img.prev_hw[1], base_img.prev_hw[2])
            disp_img == IF resize THEN ResizedShape(disp_h, disp_w) ELSE base_img.disp_hw
        IN  /\ base_img' = [full_hw |-> base_img.full_hw,
                            disp_hw |-> disp_img,
                            prev_hw |-> PrevAfterRegenerate(base_img.prev_hw, disp_img),
                            calls |-> IF base_img.calls < 2 THEN base_img.calls + 1 ELSE 2,
                            req |-> new_display_hw,
                            ret_hw |-> disp_img,
                            resized |-> resize]
            /\ UNCHANGED <<cropVars, promptVars, masks_constraint, tools_enabled, arr>>

-----------------------------------------------------------------------------
(* Specifications *)

\* No arrangement call and no ReusableBaseImage is being looked at, and the mask
\* buttons are as built
LayoutIdle ==
    /\ arr = NoArr
    /\ masks_constraint = NewConstraint(NumMaskBtns, MaskInitIdx)
    /\ tools_enabled = TRUE
    /\ base_img = NoBaseImage

Init == InitCropUI(ImageSizes) /\ InitPromptUI /\ LayoutIdle

InitZoom == InitCropUI(ZoomImageSizes) /\ InitPromptUI /\ LayoutIdle

\* The prompt UI alone: run_crop_ui is not running
InitPrompt ==
    /\ InitPromptUI
    /\ InitCropUI(ImageSizes)
    /\ ~crop_olay.valid /\ ~crop_olay.changed
    /\ ~zoom_olay.changed /\ ~zoom_slider.changed
    /\ LayoutIdle

\* The prompt UI: read_prompts once per frame, input events in between
NextPrompt ==
    \/ ReadPrompts
    \/ ToolClick
    \/ ToolNext
    \/ ToolPrevious
    \/ ClearClick
    \/ BoxInput
    \/ FgptInput
    \/ BgptInput
    \/ HoverMove
    \/ HoverClick

SpecPrompt == InitPrompt /\ [][NextPrompt]_vars

\* run_crop_ui driven by crop-box input and the Done button
NextCrop ==
    \/ CropStep
    \/ CropBoxEvent
    \/ DoneClick

SpecCrop == Init /\ [][NextCrop]_vars

\* run_crop_ui driven by pointer moves and the zoom slider
NextZoom ==
    \/ CropStep
    \/ HoverEvent
    \/ SliderEvent

SpecZoom == InitZoom /\ [][NextZoom]_vars

\* The two constraints under the keyboard bindings, tool buttons, mask buttons and
\* the change_to calls of read_prompts (hover click, removal of the last FG point)
NextKeys ==
    \/ ReadPrompts
    \/ ToolClick
    \/ ToolNext
    \/ ToolPrevious
    \/ MaskClick
    \/ MaskNext
    \/ MaskPrevious
    \/ FgptInput
    \/ HoverMove
    \/ HoverClick

SpecKeys == InitPrompt /\ [][NextKeys]_vars

\* The prompt UI with enable_tools calls between the frames
NextTools ==
    \/ NextPrompt
    \/ EnableTools

SpecTools == InitPrompt /\ [][NextTools]_vars

\* Prompt tools being enabled and disabled while prompts are drawn, without frames
NextEnable ==
    \/ EnableTools
    \/ ToolClick
    \/ BoxInput
    \/ FgptInput
    \/ BgptInput
    \/ HoverMove

SpecEnable == InitPrompt /\ [][NextEnable]_vars

\* Prompt UI started from initial prompts: loads, Clear presses and frames
NextLoad ==
    \/ ReadPrompts
    \/ LoadInitialPrompts
    \/ ClearClick

SpecLoad == InitPrompt /\ [][NextLoad]_vars

\* One call of find_best_display_arrangement; nothing else is running
InitArr ==
    /\ InitArrangement
    /\ masks_constraint = NewConstraint(NumMaskBtns, MaskInitIdx)
    /\ tools_enabled = TRUE
    /\ BaseImageIdle
    /\ InitPromptUI
    /\ InitCropUI(ImageSizes)
    /\ ~crop_olay.valid /\ ~crop_olay.changed
    /\ ~zoom_olay.changed /\ ~zoom_slider.changed

NextArr == FindBest

SpecArr == InitArr /\ [][NextArr]_vars

\* One ReusableBaseImage and its regenerate calls; nothing else is running
InitImage ==
    /\ InitReusableBaseImage
    /\ arr = NoArr
    /\ masks_constraint = NewConstraint(NumMaskBtns, MaskInitIdx)
    /\ tools_enabled = TRUE
    /\ InitPromptUI
    /\ InitCropUI(ImageSizes)
    /\ ~crop_olay.valid /\ ~crop_olay.changed
    /\ ~zoom_olay.changed /\ ~zoom_slider.changed

NextImage == Regenerate

SpecImage == InitImage /\ [][NextImage]_vars

-----------------------------------------------------------------------------
(* Properties of run_crop_ui *)

FullSlices == <<0, full_w, 0, full_h>>

NormalExits == {"break", "enter", "done"}

\* C1 (crop cancellation): when the loop is left by a KeyboardInterrupt, whatever
\* crop was held at that moment, run_crop_ui returns the x interval [0, W) and the
\* y interval [0, H) of the full image.
C1_CancelReturnsFullImage ==
    (pc = "done" /\ exit_by = "interrupt") => result = FullSlices

\* Reached: an interrupt with a smaller crop held and a crop change not yet read
C1_Witness ==
    /\ pc = "done" /\ exit_by = "interrupt"
    /\ held_crop # <<>> /\ held_crop # FullCrop(full_w, full_h)
    /\ crop_olay.changed
    /\ result = FullSlices

\* The pixel box the claims speak of: the corners rounded against (W, H) and
\* clipped to [0, W] x [0, H]
RoundedClippedBox(b) ==
    << Clip(RoundHalfEven(b.x1 * full_w, NormDen), 0, full_w),
       Clip(RoundHalfEven(b.y1 * full_h, NormDen), 0, full_h),
       Clip(RoundHalfEven(b.x2 * full_w, NormDen), 0, full_w),
       Clip(RoundHalfEven(b.y2 * full_h, NormDen), 0, full_h) >>

BelowMinimum(c) == Abs(c[3] - c[1]) < 5 \/ Abs(c[4] - c[2]) < 5

C2_Step ==
    (pc = "crop" /\ pc' = "zoom" /\ rd.is_crop_changed) =>
        LET c == RoundedClippedBox(rd'.crop_tlbr_norm)
        IN  crop' = IF BelowMinimum(c) THEN <<0, 0, full_w, full_h>> ELSE c

\* C2 (crop minimum size): in every frame in which the crop overlay reports a
\* change, the normalized corners the controller works with (the overlay's box, or
\* the full-image box substituted for an invalid one) are rounded to pixels against
\* (W, H) and clipped to the image; the crop becomes the full image (0, 0, W, H) if
\* the clipped box is less than 5 px wide or high, and exactly the clipped box
\* otherwise.
C2_CropMinimumSize == [][C2_Step]_vars

\* Reached: a changed, valid box whose clipped pixel box is below the minimum, so
\* that the crop was reset to the full image
C2_Witness ==
    /\ pc = "zoom" /\ rd.is_crop_changed /\ rd.is_valid_cropbox
    /\ RoundedClippedBox(rd.crop_tlbr_norm) # <<0, 0, full_w, full_h>>
    /\ BelowMinimum(RoundedClippedBox(rd.crop_tlbr_norm))
    /\ crop = <<0, 0, full_w, full_h>>

\* C3 (invalid crop fallback): in a frame whose crop_olay.read() reported
\* is_valid = false, the crop held once the frame's crop update is done is the full
\* image, and it is what a loop exit in that frame returns: [0, W) x [0, H).
C3_InvalidCropFallback ==
    /\ (pc \in {"zoom", "show"} /\ ~rd.is_valid_cropbox) => crop = <<0, 0, full_w, full_h>>
    /\ (pc = "done" /\ exit_by \in NormalExits /\ ~rd.is_valid_cropbox) =>
           result = FullSlices

\* Reached: a frame that read a changed, invalid box which is not the full-image
\* box, in a run that held a smaller crop before, and the loop ended there
C3_Witness ==
    /\ pc = "done" /\ exit_by \in NormalExits
    /\ rd.is_crop_changed /\ ~rd.is_valid_cropbox
    /\ crop_olay.box # FullBoxNorm /\ ~crop_olay.changed
    /\ RoundedClippedBox(crop_olay.box) # <<0, 0, full_w, full_h>>
    /\ ~BelowMinimum(RoundedClippedBox(crop_olay.box))
    /\ result = FullSlices

C4_Step ==
    /\ (pc = "show" /\ pc' # "show" /\ exit_by' \notin {"interrupt", "error"}) =>
          LET ends == \/ show_ret'.req_break
                      \/ show_ret'.keypress = "ENTER"
                      \/ show_ret'.is_done
          IN  /\ ends <=> pc' = "finally"
              /\ ~ends <=> pc' = "read"
              /\ show_ret'.req_break => exit_by' = "break"
              /\ (~show_ret'.req_break /\ show_ret'.keypress = "ENTER") => exit_by' = "enter"
              /\ (~show_ret'.req_break /\ show_ret'.keypress # "ENTER" /\ show_ret'.is_done)
                     => exit_by' = "done"
              /\ crop' = crop
    /\ (pc' = "done" /\ exit_by' \in NormalExits) =>
          /\ result' = <<crop'[1], crop'[3], crop'[2], crop'[4]>>
          /\ show_ret'.req_break \/ show_ret'.keypress = "ENTER" \/ show_ret'.is_done
    /\ (pc' \in {"finally", "return", "done"}) => exit_by' \in NormalExits \union {"interrupt", "error"}
    /\ (pc' \in LoopPcs) => (exit_by' = "none" /\ result' = <<>>)

\* C4 (crop termination): a frame that runs to the end of window.show without an
\* exception leaves the loop exactly when show reported a break request, the
\* keypress is ENTER, or the Done button's one-shot read is true, tested in that
\* order; the function then returns the current crop as the half-open intervals
\* [crop_x1, crop_x2), [crop_y1, crop_y2); in any other frame the loop goes on and
\* nothing is returned.
C4_CropTermination == [][C4_Step]_vars

\* Reached: the loop ended by the Done button and a smaller crop was returned
C4_Witness ==
    /\ pc = "done" /\ exit_by = "done" /\ show_ret.is_done
    /\ crop # FullCrop(full_w, full_h)
    /\ result = <<crop[1], crop[3], crop[2], crop[4]>>

\* C5 (display release): on every way out of the loop (break request, ENTER, Done,
\* KeyboardInterrupt, other exception) window.close() has run exactly once when
\* control is back at the caller and never before the loop is left; an exception
\* other than KeyboardInterrupt reaches the caller and no crop is returned for it.
C5_DisplayReleased ==
    /\ (pc \in LoopPcs \union {"finally"}) => window_closed = 0
    /\ (pc \in {"return", "done", "raised"}) => window_closed = 1
    /\ (pc = "raised") <=> (exit_by = "error" /\ pc \notin {"finally"} \union LoopPcs)
    /\ (pc = "raised") => result = <<>>
    /\ (pc = "done") => exit_by \in NormalExits \union {"interrupt"}

\* Reached: an exception other than KeyboardInterrupt left the loop with a smaller
\* crop held; the window was closed once and nothing was returned
C5_Witness ==
    /\ pc = "raised" /\ exit_by = "error"
    /\ window_closed = 1 /\ result = <<>>
    /\ held_crop # FullCrop(full_w, full_h)

\* C6 (zoom window inside the image): every zoom window the loop computes
\* satisfies 0 <= zoom_x1 < zoom_x2 <= W and 0 <= zoom_y1 < zoom_y2 <= H.
C6_ZoomInsideImage ==
    (zoom # <<>>) =>
        /\ 0 <= zoom[1] /\ zoom[1] < zoom[3] /\ zoom[3] <= full_w
        /\ 0 <= zoom[2] /\ zoom[2] < zoom[4] /\ zoom[4] <= full_h

-----------------------------------------------------------------------------
(* Properties of PromptUIControl.read_prompts *)

\* Every input action resets last_read, so a step that ends with last_read.called
\* is a step of read_prompts, and a state with last_read.called is the state in
\* which that call returns.
C7_Promotes ==
    (/\ last_read'.called
     /\ last_read'.tool_idx = HoverIdx
     /\ last_read'.hover_clicked /\ last_read'.hover_in) =>
        /\ tools_constraint'.idx = FgptIdx
        /\ last_read'.hover_xy \in Range(fgpt_olay'.items)
        /\ promoted'.pt = last_read'.hover_xy

\* C7 (hover-to-FG promotion): a read_prompts call made with the Hover tool selected
\* in which the hover overlay reports an in-region click at point p selects the
\* FG-point tool and adds p to the FG overlay's points, and p is in the FG list
\* returned by the next read_prompts call (whatever input arrives between the two
\* calls, short of input that removes p from the FG overlay or presses Clear).
C7_HoverPromotion ==
    [][/\ C7_Promotes
       /\ (last_read'.called /\ promoted.pt # "none" /\ promoted.intact) =>
              promoted.pt \in Range(last_read'.fg)]_vars

\* Reached: the call after a promotion has returned the promoted point as a
\* persisted FG point, with the FG-point tool selected
C7_Witness ==
    /\ last_read.called
    /\ last_read.prev_promoted.pt # "none" /\ last_read.prev_promoted.intact
    /\ last_read.tool_idx = FgptIdx /\ ~last_read.hover_read
    /\ last_read.prev_promoted.pt \in Range(last_read.fg)
    /\ last_read.fg_changed

ReturnedCount == Len(last_read.boxes) + Len(last_read.fg) + Len(last_read.bg)

HeldCount == Len(box_olay.items) + Len(fgpt_olay.items) + Len(bgpt_olay.items)

\* C8 (auto-revert): when a read_prompts call sees the FG overlay changed and the
\* combined count of boxes, FG points and BG points is zero (counted over the lists
\* the call returns, or over the overlays after the call), the Hover tool is the
\* selected tool after the call.
C8_AutoRevert ==
    (/\ last_read.called /\ last_read.fg_changed
     /\ (ReturnedCount = 0 \/ HeldCount = 0)) =>
        tools_constraint.idx = HoverIdx

\* Reached: the FG-point tool was selected, the last FG point had been removed (no
\* clear was pressed), and the call switched the tool to Hover
C8_Witness ==
    /\ last_read.called /\ last_read.fg_changed /\ ReturnedCount = 0
    /\ last_read.tool_idx = FgptIdx /\ ~last_read.clear_prompts
    /\ fgpt_olay.items = <<>>
    /\ tools_constraint.idx = HoverIdx /\ tools_constraint.changed

\* C9 as claimed (re-encode trigger): need_reencode is true if and only if the Box,
\* FG-point or BG-point overlay reported a change, the Tool Constraint reported a
\* change, or the clear button was pressed.
C9_ReencodeIffPromptToolClear ==
    last_read.called =>
        (last_read.need <=>
            \/ last_read.box_changed \/ last_read.fg_changed \/ last_read.bg_changed
            \/ last_read.is_tool_changed
            \/ last_read.clear_prompts)

\* C9 as amended: need_reencode is true if and only if the Box, FG-point or BG-point
\* overlay reported a change, or the Hover overlay (read only while the Hover tool
\* is selected) reported a change, or the Tool Constraint reported a change, or the
\* clear button was pressed.
C9_ReencodeIffAnyChange ==
    last_read.called =>
        (last_read.need <=>
            \/ last_read.box_changed \/ last_read.fg_changed \/ last_read.bg_changed
            \/ (last_read.tool_idx = HoverIdx /\ last_read.hover_changed)
            \/ last_read.is_tool_changed
            \/ last_read.clear_prompts)

\* Reached: a call with the Hover tool selected in which only the Hover overlay
\* reported a change, and the call asked for a re-encode
C9_Witness ==
    /\ last_read.called /\ last_read.need
    /\ last_read.tool_idx = HoverIdx /\ last_read.hover_changed
    /\ ~last_read.box_changed /\ ~last_read.fg_changed /\ ~last_read.bg_changed
    /\ ~last_read.is_tool_changed /\ ~last_read.clear_prompts

\* C10 (clear button): a read_prompts call that reads the clear button as pressed
\* empties the Box, FG-point and BG-point overlays before reading them: the
\* returned box list and BG list are empty, the returned FG list holds nothing but
\* the current hover point (if the pointer is in the region and the Hover tool is
\* selected), and the overlays keep none of the earlier prompts.
C10_ClearEmptiesPrompts ==
    (last_read.called /\ last_read.clear_prompts) =>
        /\ last_read.boxes = <<>>
        /\ last_read.bg = <<>>
        /\ last_read.fg = IF last_read.hover_in THEN <<last_read.hover_xy>> ELSE <<>>
        /\ box_olay.items = <<>>
        /\ bgpt_olay.items = <<>>
        /\ fgpt_olay.items = IF last_read.hover_clicked THEN <<last_read.hover_xy>> ELSE <<>>

\* Reached: the clear was read while all three overlays held prompts
C10_Witness ==
    /\ last_read.called /\ last_read.clear_prompts
    /\ last_read.held_before >= 3
    /\ last_read.boxes = <<>> /\ last_read.fg = <<>> /\ last_read.bg = <<>>

\* C11 (hover is not persisted): in a read_prompts call with the Hover tool selected,
\* the pointer in the region and no click, the returned FG list is the list read
\* from the FG overlay followed by the hover point, and the FG overlay still holds
\* exactly the list that was read; in a call with another tool selected the hover
\* overlay is not read (its one-shot flags are left pending) and the returned FG
\* list is exactly the FG overlay's list.
C11_HoverNotPersisted ==
    [][last_read'.called =>
        /\ (/\ last_read'.tool_idx = HoverIdx
            /\ last_read'.hover_in /\ ~last_read'.hover_clicked) =>
               /\ last_read'.fg = last_read'.fg_read \o <<last_read'.hover_xy>>
               /\ fgpt_olay'.items = last_read'.fg_read
               /\ ~clear_btn => fgpt_olay'.items = fgpt_olay.items
        /\ last_read'.tool_idx # HoverIdx =>
               /\ ~last_read'.hover_read
               /\ hover_olay' = hover_olay
               /\ last_read'.fg = last_read'.fg_read
               /\ last_read'.fg = fgpt_olay'.items]_vars

\* Reached: the Hover tool was selected while the FG overlay held a point, and the
\* call returned that point followed by the hover point
C11_Witness ==
    /\ last_read.called
    /\ last_read.tool_idx = HoverIdx /\ last_read.hover_in /\ ~last_read.hover_clicked
    /\ Len(last_read.fg_read) >= 1
    /\ Len(last_read.fg) = Len(fgpt_olay.items) + 1

-----------------------------------------------------------------------------
(* Properties of find_best_display_arrangement *)

\* The deviations of the six candidates of the call, in enumeration order
Deviations == ArdeltaSideOrderList(arr.in)

\* Candidate i has the minimal deviation
IsMinimal(i) == \A j \in 1..Len(Deviations) :
                    ~RatLess(Deviations[j].ar_delta, Deviations[i].ar_delta)

\* The first candidate, in enumeration order, with the minimal deviation
FirstMinimal == CHOOSE i \in 1..Len(Deviations) :
                    IsMinimal(i) /\ \A j \in 1..(i - 1) : ~IsMinimal(j)

\* Two or more candidates share the minimal deviation
TiedAtMinimum == \E i, j \in 1..Len(Deviations) : i # j /\ IsMinimal(i) /\ IsMinimal(j)

\* The candidate the call returned
ReturnedIndex == CHOOSE i \in 1..Len(Deviations) :
                    <<Deviations[i].side, Deviations[i].order>> = arr.out

\* C12 (arrangement tie-breaking): when two or more of the six candidates have the
\* same minimal deviation, the call returns the first of them in the enumeration
\* order right/vertical, right/horizontal, right/grid, top/vertical,
\* top/horizontal, top/grid.
C12_TieFirstEnumerated ==
    (arr.called /\ TiedAtMinimum) =>
        arr.out = <<Deviations[FirstMinimal].side, Deviations[FirstMinimal].order>>

-----------------------------------------------------------------------------
(* Properties of the constraints *)

ExactlyOneSelected(con) ==
    /\ Cardinality({i \in DOMAIN con.on : con.on[i]}) = 1
    /\ con.idx \in DOMAIN con.on
    /\ con.on[con.idx]

\* C14 (constraint exclusivity under the keyboard bindings): after every call of
\* next(), previous() or change_to() on the Tool Constraint (4 items; RIGHT and LEFT
\* arrows, button clicks, the change_to calls of read_prompts) and on the Mask
\* Constraint (4 items, initial index 1; DOWN and UP arrows, button clicks) exactly
\* one item is selected; next() on the last index selects index 0 and previous() on
\* index 0 selects the last index.
C14_ConstraintExclusivity ==
    [][/\ ExactlyOneSelected(tools_constraint') /\ NumItems(tools_constraint') = 4
       /\ ExactlyOneSelected(masks_constraint') /\ NumItems(masks_constraint') = 4
       /\ (ToolNext /\ tools_constraint.idx = 3) => tools_constraint'.idx = 0
       /\ (ToolPrevious /\ tools_constraint.idx = 0) => tools_constraint'.idx = 3
       /\ (MaskNext /\ masks_constraint.idx = 3) => masks_constraint'.idx = 0
       /\ (MaskPrevious /\ masks_constraint.idx = 0) => masks_constraint'.idx = 3
       /\ (ToolNext /\ tools_constraint.idx < 3) =>
              tools_constraint'.idx = tools_constraint.idx + 1
       /\ (ToolPrevious /\ tools_constraint.idx > 0) =>
              tools_constraint'.idx = tools_constraint.idx - 1
       /\ (MaskNext /\ masks_constraint.idx < 3) =>
              masks_constraint'.idx = masks_constraint.idx + 1
       /\ (MaskPrevious /\ masks_constraint.idx > 0) =>
              masks_constraint'.idx = masks_constraint.idx - 1]_vars

\* Reached: the Mask Constraint has moved from its initial button to button 0, and
\* read_prompts has just made a change_to call of its own (hover click to FG-point)
C14_Witness ==
    /\ masks_constraint.idx = 0 /\ masks_constraint.changed
    /\ ~masks_constraint.on[MaskInitIdx]
    /\ tools_constraint.idx = FgptIdx /\ tools_constraint.changed
    /\ last_read.called /\ last_read.hover_clicked

-----------------------------------------------------------------------------
(* Properties of ReusableBaseImage *)

\* C15 (size-matched image): every regenerate(hw) call returns an image whose
\* height and width are the (h, w) requested in that call.
C15_ReturnsRequestedSize ==
    base_img.calls > 0 => base_img.ret_hw = base_img.req

\* C16 (cache reuse): the original image is rescaled only in a call whose requested
\* size differs from the size requested in the previous call (from the original
\* size, in the first call); so two consecutive calls with the same requested size
\* perform at most one rescale.
C16_RescaleOnlyOnSizeChange ==
    [][base_img'.resized => base_img'.req # base_img.req]_vars

-----------------------------------------------------------------------------
(* Properties of the tool-change report *)

\* C18 (every tool change is reported once): a change of the Tool Constraint's
\* selection (tool button, arrow key, hover-click promotion or auto-revert inside
\* read_prompts) leaves a report pending; whatever other PromptUI operation runs,
\* enable_tools included, the report stays pending until a read_prompts call; that
\* call returns need_reencode = true on account of the tool change, and afterwards
\* no report is pending unless the call itself changed the tool; a read_prompts
\* call made with no report pending does not report a tool change.
C18_ToolChangeReportedOnce ==
    [][/\ tools_constraint'.idx # tools_constraint.idx => tools_constraint'.changed
       /\ (tools_constraint.changed /\ ~last_read'.called) => tools_constraint'.changed
       /\ last_read'.called =>
             /\ last_read'.is_tool_changed = tools_constraint.changed
             /\ last_read'.is_tool_changed => last_read'.need
             /\ tools_constraint'.changed =>
                   \/ last_read'.hover_clicked
                   \/ /\ last_read'.fg_changed
                      /\ last_read'.tool_idx # HoverIdx
                      /\ Len(last_read'.boxes) + Len(last_read'.fg) + Len(last_read'.bg) = 0
      ]_vars

-----------------------------------------------------------------------------
(* Properties of the auto-revert rule *)

\* C19 (auto-revert asymmetry): a read_prompts call switches the Tool Constraint
\* to Hover only if the FG-point overlay reported a change in that call; a call in
\* which neither the FG-point overlay nor the hover overlay reported a change (so
\* at most the Box or the BG-point overlay did, e.g. the last box or last BG point
\* was removed) leaves the selected tool as it was.
C19_AutoRevertAsymmetry ==
    [][last_read'.called =>
          /\ (tools_constraint.idx # HoverIdx /\ tools_constraint'.idx = HoverIdx)
                => last_read'.fg_changed
          /\ (~last_read'.fg_changed /\ ~last_read'.hover_changed)
                => tools_constraint'.idx = tools_constraint.idx
      ]_vars

\* Witness: read_prompts has just seen the last box or the last BG point removed
\* (no Clear press, no FG change, nothing left) and the tool is still Box or BG
C19_Witness ==
    /\ last_read.called
    /\ ~last_read.clear_prompts /\ ~last_read.fg_changed
    /\ last_read.box_changed \/ last_read.bg_changed
    /\ last_read.held_before = 0
    /\ Len(last_read.boxes) + Len(last_read.fg) + Len(last_read.bg) = 0
    /\ tools_constraint.idx \in {BoxIdx, BgptIdx}

-----------------------------------------------------------------------------
(* Properties of load_initial_prompts *)

\* part occurs in list as a run of consecutive entries
ContainsRun(list, part) ==
    \E k \in 0..(Len(list) - Len(part)) : SubSeq(list, k + 1, k + Len(part)) = part

\* C20 (initial prompts survive a pending clear): load_initial_prompts(d) with a
\* dict d leaves no Clear press pending, so the read_prompts call that follows it
\* does not clear the overlays and returns lists that contain all boxes, FG points
\* and BG points of d; with an argument that is not a dict the call changes
\* nothing: no overlay is modified and a pending Clear press stays pending.
C20_InitialPromptsSurviveClear ==
    [][/\ (last_read'.loaded.called /\ last_read'.loaded.is_dict) => ~clear_btn'
       /\ (last_read'.loaded.called /\ ~last_read'.loaded.is_dict) =>
             /\ clear_btn' = clear_btn
             /\ box_olay' = box_olay /\ fgpt_olay' = fgpt_olay /\ bgpt_olay' = bgpt_olay
             /\ hover_olay' = hover_olay /\ tools_constraint' = tools_constraint
       /\ (last_read.loaded.called /\ last_read.loaded.is_dict /\ last_read'.called) =>
             /\ ~last_read'.clear_prompts
             /\ ContainsRun(last_read'.boxes, last_read.loaded.boxes)
             /\ ContainsRun(last_read'.fg, last_read.loaded.fg_points)
             /\ ContainsRun(last_read'.bg, last_read.loaded.bg_points)
      ]_vars

\* Witness: Clear was pending when a dict with a box, an FG point and a BG point
\* was loaded, and read_prompts has been called right after the load
C20_Witness ==
    /\ last_read.called
    /\ last_read.prev_loaded.called /\ last_read.prev_loaded.is_dict
    /\ last_read.prev_loaded.pending
    /\ last_read.prev_loaded.boxes # <<>>
    /\ last_read.prev_loaded.fg_points # <<>>
    /\ last_read.prev_loaded.bg_points # <<>>
    /\ Len(last_read.boxes) > 0 /\ Len(last_read.fg) > 0 /\ Len(last_read.bg) > 0

-----------------------------------------------------------------------------
(* Properties of enable_tools *)

\* C21 (enable_tools(False) clears prompt data only on request): a call
\* enable_tools(False, clear_prompt_data_on_disable = True) leaves the Box,
\* FG-point and BG-point overlays empty and the Hover overlay in a state its own
\* clear() produces; a call enable_tools(False, False) and every call
\* enable_tools(True, _) leave all four overlays exactly as they were.
C21_ClearOnlyOnRequest ==
    [][last_read'.enabling.called =>
          IF ~last_read'.enabling.enable /\ last_read'.enabling.clear_prompt_data_on_disable
          THEN /\ box_olay'.items = <<>> /\ fgpt_olay'.items = <<>> /\ bgpt_olay'.items = <<>>
               /\ hover_olay' \in HoverClearOutcomes(hover_olay)
          ELSE /\ box_olay' = box_olay /\ fgpt_olay' = fgpt_olay /\ bgpt_olay' = bgpt_olay
               /\ hover_olay' = hover_olay
      ]_vars

\* Witness: the tools were disabled without the clearing request while prompts
\* were held, and the prompts are still there
C21_Witness ==
    /\ last_read.enabling.called
    /\ ~last_read.enabling.enable /\ ~last_read.enabling.clear_prompt_data_on_disable
    /\ last_read.enabling.had_prompts
    /\ Len(box_olay.items) + Len(fgpt_olay.items) + Len(bgpt_olay.items) > 0

-----------------------------------------------------------------------------
(* Properties of what run_crop_ui shows and returns *)

\* C22 (crop size readout): in every frame that updates the crop, the "Crop WH"
\* text block is set to (crop_x2 - crop_x1, crop_y2 - crop_y1), the width and the
\* height of the crop, whether or not the crop is square.
C22_CropSizeReadout ==
    [][(pc = "crop" /\ rd.is_crop_changed /\ pc' = "zoom") =>
          crop_wh_txt' = <<crop'[3] - crop'[1], crop'[4] - crop'[2]>>
      ]_vars

\* C23 (returned crop is a usable sub-rectangle): whatever boxes the crop overlay
\* reported (valid or not, changed or not, corners in any order) and however the
\* loop was left, the returned intervals satisfy 0 <= x1 < x2 <= W and
\* 0 <= y1 < y2 <= H with x2 - x1 >= 5 and y2 - y1 >= 5.
C23_ReturnedCropUsable ==
    (pc = "done") =>
        /\ 0 <= result[1] /\ result[1] < result[2] /\ result[2] <= full_w
        /\ 0 <= result[3] /\ result[3] < result[4] /\ result[4] <= full_h
        /\ result[2] - result[1] >= 5 /\ result[4] - result[3] >= 5

\* Witness: the last frame read a changed box whose corners are in reverse order
\* on the x axis, and the function returned
C23_Witness ==
    /\ pc = "done" /\ exit_by \in NormalExits
    /\ rd.is_crop_changed /\ ~crop_olay.changed
    /\ crop_olay.box.x2 < crop_olay.box.x1
    /\ result # <<>>

\* The crop the frame rule derives from a box and its validity flag
CropOfBox(is_valid, b) ==
    LET c == RoundedClippedBox(IF is_valid THEN b ELSE FullBoxNorm)
    IN  IF BelowMinimum(c) THEN <<0, 0, full_w, full_h>> ELSE c

\* C24 as claimed (returned crop is up to date): when the loop is left by ENTER,
\* Done or a break request, the returned intervals are the pixel conversion of
\* the box the crop overlay holds at that moment, input events that arrived after
\* the loop's last crop_olay.read() included.
C24_ReturnedCropUpToDate ==
    (pc = "done" /\ exit_by \in NormalExits) =>
        result = <<CropOfBox(crop_olay.valid, crop_olay.box)[1],
                   CropOfBox(crop_olay.valid, crop_olay.box)[3],
                   CropOfBox(crop_olay.valid, crop_olay.box)[2],
                   CropOfBox(crop_olay.valid, crop_olay.box)[4]>>

\* C24 amended: when the loop is left by ENTER, Done or a break request, the
\* returned intervals are the crop derived from the box of the last
\* crop_olay.read() that reported a change (the full image if none did): the crop
\* is assigned only in a frame whose read reported a change, from the box that
\* read returned; input events and frames without a reported change leave it as
\* it is, so a change of the overlay after the loop's last read is not returned.
C24_ReturnedCropFromLastChangedRead ==
    [][/\ (pc = "crop" /\ pc' = "zoom" /\ rd.is_crop_changed) =>
             crop' = CropOfBox(rd.is_valid_cropbox, rd.crop_tlbr_norm)
       /\ ((pc # "crop" \/ ~rd.is_crop_changed) /\ exit_by' \notin {"interrupt", "error"}) =>
             crop' = crop
       /\ (pc' = "done" /\ exit_by' \in NormalExits) =>
             result' = <<crop[1], crop[3], crop[2], crop[4]>>
      ]_vars

\* Witness: the loop ended while the overlay held a change that no read had
\* seen, and the crop returned is not the one that box converts to
C24_Witness ==
    /\ pc = "done" /\ exit_by \in NormalExits
    /\ crop_olay.changed
    /\ result # <<>> /\ result # FullSlices
    /\ result # <<CropOfBox(crop_olay.valid, crop_olay.box)[1],
                  CropOfBox(crop_olay.valid, crop_olay.box)[3],
                  CropOfBox(crop_olay.valid, crop_olay.box)[2],
                  CropOfBox(crop_olay.valid, crop_olay.box)[4]>>

-----------------------------------------------------------------------------
(* Properties of successive read_prompts calls *)

\* Number of entries of list equal to x
Count(list, x) == Cardinality({i \in 1..Len(list) : list[i] = x})

\* The read_prompts call recorded in r observed a hover click at a point that was
\* not among the FG points the overlay already held
FreshClick(r) == r.called /\ r.hover_clicked /\ r.hover_xy \notin Range(r.fg_read)

C26_QuiescenceWithoutInput ==
    [][(last_read'.called /\ last_read'.run >= QuietCalls) =>
          /\ ~last_read'.need
          /\ tools_constraint'.idx = tools_constraint.idx
          /\ ~tools_constraint'.changed
      ]_vars

\* Witness: a run of calls without input in which three calls asked for
\* re-encoding before the calls stopped asking
C26_Witness ==
    /\ last_read.called
    /\ last_read.run >= QuietCalls /\ last_read.run_need >= 3
    /\ ~last_read.need

-----------------------------------------------------------------------------
(* Properties of the candidate sizes of find_best_display_arrangement *)

\* (img_w + add_w) / (img_h + add_h): the aspect ratio the function works out for
\* a candidate
CompositeAr(in, cfg) ==
    RatDiv(RatAdd(Rat(in.img_w, 1), cfg.add_w), RatAdd(Rat(in.img_h, 1), cfg.add_h))

\* C27 (arrangement ratios match the built layout): for a call made for the
\* NumMaskBtns mask tiles the display has, the aspect ratio worked out for each
\* of the six (side, order) candidates equals the aspect ratio of the display
\* block built for that candidate, the mask tiles being scaled to span the
\* image's height (side right) or width (side top); for right/horizontal the
\* width of the block is Iw + n * Mw * (Ih / Mh).
C27_RatiosMatchLayout ==
    (arr.called /\ arr.in.num_masks = NumMaskBtns) =>
        \A i \in 1..Len(ConfigurationsList(arr.in)) :
            LET cfg == ConfigurationsList(arr.in)[i]
                wh == DisplayBlockWH(arr.in, cfg.side, cfg.order)
            IN  RatEq(CompositeAr(arr.in, cfg), RatDiv(wh[1], wh[2]))

====
